---- MODULE Spec2Model ----
(***************************************************************************)
(* Model of emfol/stream (src/stream.c): a sequential byte stream over a   *)
(* sliding window of memory-mapped file blocks.                            *)
(*                                                                         *)
(* The control block `struct stream` is the record s; the backing file is  *)
(* the byte sequence file (its length is the on-disk size); maps is the    *)
(* set of live mappings the process holds and fds the set of open          *)
(* descriptors.  stream_write and stream_read are modelled statement group *)
(* by statement group (pc is the position inside the running call), so the *)
(* states inside a remap are visible.  The operating system calls that the *)
(* code checks or ignores (open, fstat, malloc, ftruncate, mmap, msync)    *)
(* may fail; munmap of a whole live mapping and close of an open           *)
(* descriptor succeed.                                                     *)
(***************************************************************************)
EXTENDS Integers, Sequences, FiniteSets, TLC

(* ---- bounds of the model ---- *)
MaxLen == 4          \* longest request passed to read/write
MaxEnd == 5          \* writes are only issued while cursor + len <= MaxEnd
MaxPre == 5          \* longest pre-existing file

(* ---- program and platform constants ---- *)
MAP_FAILED == -1     \* "no window held"
NOFD == -1           \* initial value of strm.des
FD == 3              \* the descriptor open() hands out
PAGE == 2            \* sysconf(_SC_PAGESIZE) of the modelled platform
LONG_MAX == 15       \* largest long: a long of 5 bits, -16..15

PROT_READ == "PROT_READ"
PROT_WRITE == "PROT_WRITE"

HOLE == 0            \* byte of a file region that was never written

Min(a, b) == IF a < b THEN a ELSE b
Max(a, b) == IF a > b THEN a ELSE b

(* the value a long holds after an arithmetic result x wrapped around *)
Wrap(x) == ((x + LONG_MAX + 1) % (2 * (LONG_MAX + 1))) - (LONG_MAX + 1)

VARIABLES
    file,     \* contents of the backing file, byte i at index i + 1
    exists,   \* the path names a file
    fds,      \* open descriptors of the process
    maps,     \* live mappings of the process: [addr, off, len, prot]
    strmp,    \* the caller's handle: "NULL", "S" (the heap object) or
              \* "FREED" (dangling after stream_close; never passed again)
    s,        \* the control block (struct stream)
    pc,       \* position inside the running call; "ret" when it has just
              \* returned, "idle" when the caller is about to call,
              \* "SIGSEGV" / "SIGABRT" when the process was killed
    loc,      \* locals of the running call: buf, len, brk
    call,     \* the call in progress or last returned, with entry values
              \* of cursor, end, tracked size and stream contents
    ret,      \* value returned by the last call
    errno,    \* errno as set by the last call, "0" when it set none
    out,      \* the caller's buffer filled by the last stream_read
    rt        \* the caller's position in a write / seek / read round trip

vars == <<file, exists, fds, maps, strmp, s, pc, loc, call, ret, errno, out, rt>>

(* struct stream initialiser of stream_open *)
strm0 == [buf |-> MAP_FAILED, off |-> 0, len |-> 0, brk |-> 0, blk |-> 0,
          cur |-> 0, end |-> 0, siz |-> 0, mod |-> {}, des |-> NOFD]

loc0 == [buf |-> <<>>, len |-> 0, brk |-> 0]
call0 == [op |-> "none", len |-> 0, cur0 |-> 0, end0 |-> 0, siz0 |-> 0,
          a0 |-> <<>>]

(* the stream as its user sees it: the bytes of the file below end *)
Flat == SubSeq(file, 1, s.end)
rt0 == [st |-> 0, p |-> 0, d |-> <<>>]

(* bytes of callers and of pre-existing files: the alternating pattern of  *)
(* the bytes 1 and 2, of length n, starting with byte t                    *)
Pattern(t, n) == [i \in 1..n |-> IF i % 2 = 1 THEN t ELSE 3 - t]

PreFiles == {Pattern(2, n) : n \in {0, 3, MaxPre}}

(* ftruncate(2): cut, or extend with hole bytes, to exactly n bytes *)
(* variant: growing a file clears it *)
FtruncateClobber(f, n) == [i \in 1..n |-> HOLE]

Ftruncate(f, n) ==
    IF n <= Len(f) THEN SubSeq(f, 1, n)
    ELSE f \o [i \in 1..(n - Len(f)) |-> HOLE]

(* effective block size: the page size, or st_blksize when it is a clean  *)
(* multiple (> 1x) of the page size                                       *)
BlockSize(pagesize, blksize) ==
    IF blksize < LONG_MAX /\ blksize > pagesize
       /\ blksize % pagesize = 0 /\ blksize \div pagesize > 1
    THEN blksize ELSE pagesize

(* open(2) flags chosen from the mode string *)
Oflg(mode) ==
    IF Len(mode) > 1 /\ mode[2] = "+"
    THEN (IF mode[1] = "w" THEN {"O_RDWR", "O_CREAT", "O_TRUNC"} ELSE {"O_RDWR"})
    ELSE (IF mode[1] = "w" THEN {"O_WRONLY", "O_CREAT", "O_TRUNC"} ELSE {"O_RDONLY"})

(* mmap protection derived from the access mode of the open flags *)
ProtOf(oflg) ==
    IF "O_RDONLY" \in oflg THEN {PROT_READ}
    ELSE IF "O_WRONLY" \in oflg THEN {PROT_WRITE}
    ELSE {PROT_READ, PROT_WRITE}

Modes == {<<"r">>, <<"r", "+">>, <<"w">>, <<"w", "+">>, <<"a">>}
BlkSizes == {2, 3, 4}

Init ==
    /\ \E f \in PreFiles, e \in BOOLEAN :
          /\ exists = e
          /\ file = IF e THEN f ELSE <<>>
    /\ fds = {}
    /\ maps = {}
    /\ strmp = "NULL"
    /\ s = strm0
    /\ pc = "idle"
    /\ loc = loc0
    /\ call = call0
    /\ ret = 0
    /\ errno = "0"
    /\ out = <<>>
    /\ rt = rt0

(* a call that fails: errno = errn, return value -1 *)
Fail(op, errn) ==
    /\ ret' = -1
    /\ errno' = errn
    /\ pc' = "ret"

(* ---- stream_open ---- *)
(* variant: the allocation failure returns without closing the descriptor *)
stream_open_Leak(pathnull, mode, pagesize, blksize, fault) ==
    /\ pc = "idle" /\ strmp = "NULL"
    /\ call' = [call0 EXCEPT !.op = "open"]
    /\ loc' = loc0 /\ out' = <<>> /\ rt' = rt0 /\ maps' = maps
    /\ LET oflg == Oflg(mode)
           creat == "O_CREAT" \in oflg
           opened == (exists \/ creat) /\ fault # "open"
           f1 == IF "O_TRUNC" \in oflg THEN <<>> ELSE file
       IN
       IF pathnull \/ (mode[1] # "r" /\ mode[1] # "w") THEN
            /\ Fail("open", "EINVAL")
            /\ UNCHANGED <<file, exists, fds, strmp, s>>
       ELSE IF pagesize < 1 THEN
            /\ Fail("open", "ENOTSUP")
            /\ UNCHANGED <<file, exists, fds, strmp, s>>
       ELSE IF ~opened THEN
            /\ Fail("open", IF exists \/ creat THEN "EOS" ELSE "ENOENT")
            /\ UNCHANGED <<file, exists, fds, strmp, s>>
       ELSE
            /\ exists' = TRUE
            /\ file' = f1
            /\ IF fault = "fstat" THEN
                    /\ Fail("open", "EOS")
                    /\ fds' = (fds \cup {FD}) \ {FD}
                    /\ UNCHANGED <<strmp, s>>
               ELSE IF Len(f1) > LONG_MAX THEN
                    /\ Fail("open", "EFBIG")
                    /\ fds' = (fds \cup {FD}) \ {FD}
                    /\ UNCHANGED <<strmp, s>>
               ELSE IF fault = "malloc" THEN
                    /\ Fail("open", "ENOMEM")
                    /\ fds' = fds \cup {FD}
                    /\ UNCHANGED <<strmp, s>>
               ELSE
                    /\ fds' = fds \cup {FD}
                    /\ strmp' = "S"
                    /\ s' = [strm0 EXCEPT !.blk = BlockSize(pagesize, blksize),
                                          !.des = FD,
                                          !.mod = ProtOf(oflg),
                                          !.end = Len(f1),
                                          !.siz = Len(f1)]
                    /\ ret' = 0
                    /\ pc' = "ret"
                    /\ errno' = "0"

(* fault names the step that fails, "none" when every step succeeds; the   *)
(* failure exit closes the descriptor when one was acquired                *)
stream_open(pathnull, mode, pagesize, blksize, fault) ==
    /\ pc = "idle" /\ strmp = "NULL"
    /\ call' = [call0 EXCEPT !.op = "open"]
    /\ loc' = loc0 /\ out' = <<>> /\ rt' = rt0 /\ maps' = maps
    /\ LET oflg == Oflg(mode)
           creat == "O_CREAT" \in oflg
           opened == (exists \/ creat) /\ fault # "open"
           f1 == IF "O_TRUNC" \in oflg THEN <<>> ELSE file
       IN
       IF pathnull \/ (mode[1] # "r" /\ mode[1] # "w") THEN
            /\ Fail("open", "EINVAL")
            /\ UNCHANGED <<file, exists, fds, strmp, s>>
       ELSE IF pagesize < 1 THEN
            /\ Fail("open", "ENOTSUP")
            /\ UNCHANGED <<file, exists, fds, strmp, s>>
       ELSE IF ~opened THEN
            /\ Fail("open", IF exists \/ creat THEN "EOS" ELSE "ENOENT")
            /\ UNCHANGED <<file, exists, fds, strmp, s>>
       ELSE
            /\ exists' = TRUE
            /\ file' = f1
            /\ IF fault = "fstat" THEN
                    /\ Fail("open", "EOS")
                    /\ fds' = (fds \cup {FD}) \ {FD}
                    /\ UNCHANGED <<strmp, s>>
               ELSE IF Len(f1) > LONG_MAX THEN
                    /\ Fail("open", "EFBIG")
                    /\ fds' = (fds \cup {FD}) \ {FD}
                    /\ UNCHANGED <<strmp, s>>
               ELSE IF fault = "malloc" THEN
                    /\ Fail("open", "ENOMEM")
                    /\ fds' = (fds \cup {FD}) \ {FD}
                    /\ UNCHANGED <<strmp, s>>
               ELSE
                    /\ fds' = fds \cup {FD}
                    /\ strmp' = "S"
                    /\ s' = [strm0 EXCEPT !.blk = BlockSize(pagesize, blksize),
                                          !.des = FD,
                                          !.mod = ProtOf(oflg),
                                          !.end = Len(f1),
                                          !.siz = Len(f1)]
                    /\ ret' = 0
                    /\ pc' = "ret"
                    /\ errno' = "0"

(* ---- the window ---- *)

(* variant: the test forgets that no window may be held *)
(* variant: the test misses a cursor below the window *)
PageFaultNoLower(st) ==
    st.cur >= st.brk \/ st.buf = MAP_FAILED

PageFaultBoundsOnly(st) ==
    st.cur < st.off \/ st.cur >= st.brk

(* "check page faults": the held window does not cover the cursor *)
PageFault(st) ==
    st.cur < st.off \/ st.cur >= st.brk \/ st.buf = MAP_FAILED

(* munmap(s->buf, s->len); s->buf = MAP_FAILED *)
Unmap(st, ms) == {m \in ms : m.addr # st.buf}

(* address mmap returns: the lowest one not in use *)
NewAddr(ms) == CHOOSE a \in 1..(Cardinality(ms) + 1) : \A m \in ms : m.addr # a

(* mmap maps the range [off, off + len) only when it ends at or below the  *)
(* largest file offset, which is LONG_MAX where off_t is a long            *)
MapInRange(off, len) == off + len <= LONG_MAX

(* the byte at stream position pos is reachable through the held window *)
Addressable(pos) ==
    \E m \in maps : /\ m.addr = s.buf
                    /\ m.off <= pos /\ pos < m.off + m.len
                    /\ pos < Len(file)

(* return from a running read or write *)
Return(v) ==
    /\ ret' = v
    /\ pc' = "ret"
    /\ errno' = "0"

(* ---- stream_close ---- *)
(* variants of stream_close: no trailing truncation; truncation at the    *)
(* cursor instead of end                                                   *)
stream_close_NoTrunc(trunc_ok) ==
    /\ pc = "idle" /\ strmp # "FREED"
    /\ call' = [op |-> "close", len |-> 0, cur0 |-> s.cur, end0 |-> s.end,
                siz0 |-> s.siz, a0 |-> Flat]
    /\ ret' = 0
    /\ pc' = "ret"
    /\ out' = <<>>
    /\ rt' = rt0
    /\ errno' = "0"
    /\ UNCHANGED <<exists, loc, file>>
    /\ IF strmp = "NULL" THEN
            UNCHANGED <<fds, maps, strmp, s>>
       ELSE /\ maps' = IF s.buf # MAP_FAILED THEN Unmap(s, maps) ELSE maps
            /\ fds' = fds \ {s.des}
            /\ strmp' = "FREED"
            /\ s' = strm0

stream_close_AtCursor(trunc_ok) ==
    /\ pc = "idle" /\ strmp # "FREED"
    /\ call' = [op |-> "close", len |-> 0, cur0 |-> s.cur, end0 |-> s.end,
                siz0 |-> s.siz, a0 |-> Flat]
    /\ ret' = 0
    /\ pc' = "ret"
    /\ out' = <<>>
    /\ rt' = rt0
    /\ UNCHANGED <<exists, loc>>
    /\ IF strmp = "NULL" THEN
            /\ errno' = "0"
            /\ UNCHANGED <<file, fds, maps, strmp, s>>
       ELSE /\ maps' = IF s.buf # MAP_FAILED THEN Unmap(s, maps) ELSE maps
            /\ file' = IF s.cur < s.siz /\ trunc_ok
                       THEN Ftruncate(file, s.cur) ELSE file
            /\ errno' = IF s.cur < s.siz /\ ~trunc_ok THEN "EOS" ELSE "0"
            /\ fds' = fds \ {s.des}
            /\ strmp' = "FREED"
            /\ s' = strm0

(* trunc_ok: outcome of the ftruncate whose result the code ignores; a     *)
(* failed ftruncate leaves its error in errno, close returns nothing       *)
stream_close(trunc_ok) ==
    /\ pc = "idle" /\ strmp # "FREED"
    /\ call' = [op |-> "close", len |-> 0, cur0 |-> s.cur, end0 |-> s.end,
                siz0 |-> s.siz, a0 |-> Flat]
    /\ ret' = 0
    /\ pc' = "ret"
    /\ out' = <<>>
    /\ rt' = rt0
    /\ UNCHANGED <<exists, loc>>
    /\ IF strmp = "NULL" THEN
            /\ errno' = "0"
            /\ UNCHANGED <<file, fds, maps, strmp, s>>
       ELSE /\ maps' = IF s.buf # MAP_FAILED THEN Unmap(s, maps) ELSE maps
            /\ file' = IF s.end < s.siz /\ trunc_ok
                       THEN Ftruncate(file, s.end) ELSE file
            /\ errno' = IF s.end < s.siz /\ ~trunc_ok THEN "EOS" ELSE "0"
            /\ fds' = fds \ {s.des}
            /\ strmp' = "FREED"
            /\ s' = strm0

(* ---- stream_write ---- *)

(* variant: the permission check is missing *)
stream_write_NoPerm(bufnull, len, data) ==
    /\ pc = "idle" /\ strmp # "FREED"
    /\ call' = [op |-> "write", len |-> len, cur0 |-> s.cur, end0 |-> s.end,
                siz0 |-> s.siz, a0 |-> Flat]
    /\ rt' = rt0
    /\ out' = <<>>
    /\ UNCHANGED <<file, exists, fds, maps, strmp, s>>
    /\ IF strmp = "NULL" \/ bufnull \/ len < 0 THEN
            Fail("write", "EINVAL") /\ loc' = loc0
       ELSE IF s.cur > LONG_MAX - len THEN
            Fail("write", "EFBIG") /\ loc' = loc0
       ELSE /\ loc' = [buf |-> data, len |-> 0, brk |-> s.cur + len]
            /\ pc' = "w_loop"
            /\ ret' = 0 /\ errno' = "0"

(* parameter, permission and limit checks; write break; counter reset *)
(* variant: the limit check also refuses a write ending at LONG_MAX *)
stream_write_LimitOffByOne(bufnull, len, data) ==
    /\ pc = "idle" /\ strmp # "FREED"
    /\ call' = [op |-> "write", len |-> len, cur0 |-> s.cur, end0 |-> s.end,
                siz0 |-> s.siz, a0 |-> Flat]
    /\ rt' = rt0
    /\ out' = <<>>
    /\ UNCHANGED <<file, exists, fds, maps, strmp, s>>
    /\ IF strmp = "NULL" \/ bufnull \/ len < 0 THEN
            Fail("write", "EINVAL") /\ loc' = loc0
       ELSE IF PROT_WRITE \notin s.mod THEN
            Fail("write", "EPERM") /\ loc' = loc0
       ELSE IF s.cur >= LONG_MAX - len THEN
            Fail("write", "EFBIG") /\ loc' = loc0
       ELSE /\ loc' = [buf |-> data, len |-> 0, brk |-> s.cur + len]
            /\ pc' = "w_loop"
            /\ UNCHANGED <<ret, errno>>

stream_write(bufnull, len, data) ==
    /\ pc = "idle" /\ strmp # "FREED"
    /\ call' = [op |-> "write", len |-> len, cur0 |-> s.cur, end0 |-> s.end,
                siz0 |-> s.siz, a0 |-> Flat]
    /\ rt' = rt0
    /\ out' = <<>>
    /\ UNCHANGED <<file, exists, fds, maps, strmp, s>>
    /\ IF strmp = "NULL" \/ bufnull \/ len < 0 THEN
            Fail("write", "EINVAL") /\ loc' = loc0
       ELSE IF PROT_WRITE \notin s.mod THEN
            Fail("write", "EPERM") /\ loc' = loc0
       ELSE IF s.cur > LONG_MAX - len THEN
            Fail("write", "EFBIG") /\ loc' = loc0
       ELSE /\ loc' = [buf |-> data, len |-> 0, brk |-> s.cur + len]
            /\ pc' = "w_loop"
            /\ UNCHANGED <<ret, errno>>

(* while (s->cur < brk): loop test and page-fault test; return len *)
WriteLoop ==
    /\ pc = "w_loop"
    /\ UNCHANGED <<file, exists, fds, maps, strmp, s, call, out>>
    /\ IF s.cur < loc.brk THEN
            /\ pc' = IF PageFault(s) THEN "w_unmap" ELSE "w_copy"
            /\ UNCHANGED <<ret, errno, rt, loc>>
       ELSE /\ Return(loc.len)
            /\ loc' = loc0
            /\ rt' = [st |-> 1, p |-> call.cur0, d |-> loc.buf]

(* variant: the old window is forgotten without munmap *)
WriteUnmapLeak ==
    /\ pc = "w_unmap"
    /\ maps' = maps
    /\ LET off == (s.cur \div s.blk) * s.blk IN
       s' = [s EXCEPT !.buf = MAP_FAILED, !.off = off, !.len = s.blk,
                      !.brk = off + s.blk]
    /\ pc' = "w_grow"
    /\ UNCHANGED <<file, exists, fds, strmp, loc, call, ret, errno, out, rt>>

(* release the held window, compute the new window.  s->off + s->len is  *)
(* a signed addition: when the sum exceeds LONG_MAX the behaviour is       *)
(* undefined, and the build either traps or stores the wrapped value       *)
WriteUnmap ==
    /\ pc = "w_unmap"
    /\ maps' = IF s.buf # MAP_FAILED THEN Unmap(s, maps) ELSE maps
    /\ LET off == (s.cur \div s.blk) * s.blk
           st == [s EXCEPT !.buf = MAP_FAILED, !.off = off, !.len = s.blk]
       IN IF off + s.blk <= LONG_MAX THEN
               /\ s' = [st EXCEPT !.brk = off + s.blk]
               /\ pc' = "w_grow"
          ELSE \E trap \in BOOLEAN :
               IF trap THEN s' = st /\ pc' = "SIGABRT"
               ELSE /\ s' = [st EXCEPT !.brk = Wrap(off + s.blk)]
                    /\ pc' = "w_grow"
    /\ UNCHANGED <<file, exists, fds, strmp, loc, call, ret, errno, out, rt>>

(* variant: the tracked size is raised although ftruncate failed *)
WriteGrowOptimistic(ok) ==
    /\ pc = "w_grow"
    /\ UNCHANGED <<exists, fds, maps, strmp, call, out, rt>>
    /\ IF s.brk > s.siz THEN
            IF ok THEN
                /\ file' = Ftruncate(file, s.brk)
                /\ s' = [s EXCEPT !.siz = s.brk]
                /\ pc' = "w_map"
                /\ UNCHANGED <<ret, errno, loc>>
            ELSE
                /\ Fail("write", "EOS")
                /\ loc' = loc0
                /\ s' = [s EXCEPT !.siz = s.brk]
                /\ UNCHANGED file
       ELSE /\ pc' = "w_map"
            /\ UNCHANGED <<file, s, ret, errno, loc>>

(* grow the file to the window's bound when it lies beyond the file size *)
WriteGrow(ok) ==
    /\ pc = "w_grow"
    /\ UNCHANGED <<exists, fds, maps, strmp, call, out, rt>>
    /\ IF s.brk > s.siz THEN
            IF ok THEN
                /\ file' = Ftruncate(file, s.brk)
                /\ s' = [s EXCEPT !.siz = s.brk]
                /\ pc' = "w_map"
                /\ UNCHANGED <<ret, errno, loc>>
            ELSE
                /\ Fail("write", "EOS")
                /\ loc' = loc0
                /\ UNCHANGED <<file, s>>
       ELSE /\ pc' = "w_map"
            /\ UNCHANGED <<file, s, ret, errno, loc>>

(* s->buf = mmap(NULL, s->len, s->mod, MAP_SHARED, s->des, s->off);        *)
(* off_t is a long, and mmap refuses (EOVERFLOW) a range that ends beyond  *)
(* the largest offset                                                      *)
WriteMap(ok) ==
    /\ pc = "w_map"
    /\ UNCHANGED <<file, exists, fds, strmp, call, out, rt>>
    /\ IF ok /\ MapInRange(s.off, s.len) THEN
            /\ LET a == NewAddr(maps) IN
                /\ maps' = maps \cup {[addr |-> a, off |-> s.off,
                                       len |-> s.len, prot |-> s.mod]}
                /\ s' = [s EXCEPT !.buf = a]
            /\ pc' = "w_copy"
            /\ UNCHANGED <<ret, errno, loc>>
       ELSE /\ Fail("write", "EOS")
            /\ loc' = loc0
            /\ s' = [s EXCEPT !.buf = MAP_FAILED]
            /\ maps' = maps

(* variant: the copy transfers nothing and leaves the cursor in place *)
WriteCopyStuck ==
    /\ pc = "w_copy"
    /\ pc' = "w_end"
    /\ UNCHANGED <<file, exists, fds, maps, strmp, s, loc, call, ret, errno, out, rt>>

(* variant: the source pointer restarts at buf for every window *)
WriteCopyFromStart ==
    /\ pc = "w_copy"
    /\ UNCHANGED <<exists, fds, maps, strmp, call, ret, errno, out, rt>>
    /\ LET wrl == Min(Wrap(s.brk - s.cur), loc.brk - s.cur) IN
       IF \A k \in 0..(wrl - 1) : Addressable(s.cur + k) THEN
            /\ file' = [i \in 1..Len(file) |->
                          IF s.cur <= i - 1 /\ i - 1 < s.cur + wrl
                          THEN loc.buf[(i - 1 - s.cur) + 1]
                          ELSE file[i]]
            /\ s' = [s EXCEPT !.cur = s.cur + wrl]
            /\ loc' = [loc EXCEPT !.len = loc.len + wrl]
            /\ pc' = "w_end"
       ELSE /\ pc' = "SIGSEGV"
            /\ UNCHANGED <<file, s, loc>>

(* write length, byte copy through the window, cursor and counter update *)
WriteCopy ==
    /\ pc = "w_copy"
    /\ UNCHANGED <<exists, fds, maps, strmp, call, ret, errno, out, rt>>
    /\ LET wrl == Min(Wrap(s.brk - s.cur), loc.brk - s.cur) IN
       IF \A k \in 0..(wrl - 1) : Addressable(s.cur + k) THEN
            /\ file' = [i \in 1..Len(file) |->
                          IF s.cur <= i - 1 /\ i - 1 < s.cur + wrl
                          THEN loc.buf[loc.len + (i - 1 - s.cur) + 1]
                          ELSE file[i]]
            /\ s' = [s EXCEPT !.cur = s.cur + wrl]
            /\ loc' = [loc EXCEPT !.len = loc.len + wrl]
            /\ pc' = "w_end"
       ELSE /\ pc' = "SIGSEGV"
            /\ UNCHANGED <<file, s, loc>>

(* variant: end follows the cursor unconditionally *)
WriteEndAlways ==
    /\ pc = "w_end"
    /\ s' = [s EXCEPT !.end = s.cur]
    /\ pc' = "w_loop"
    /\ UNCHANGED <<file, exists, fds, maps, strmp, loc, call, ret, errno, out, rt>>

(* variant: end is never moved *)
WriteEndNever ==
    /\ pc = "w_end"
    /\ pc' = "w_loop"
    /\ UNCHANGED <<file, exists, fds, maps, strmp, s, loc, call, ret, errno, out, rt>>

(* if (s->cur > s->end) s->end = s->cur *)
WriteEnd ==
    /\ pc = "w_end"
    /\ s' = [s EXCEPT !.end = IF s.cur > s.end THEN s.cur ELSE s.end]
    /\ pc' = "w_loop"
    /\ UNCHANGED <<file, exists, fds, maps, strmp, loc, call, ret, errno, out, rt>>

(* ---- stream_read ---- *)

(* variant: the request is not clamped to end *)
stream_read_NoClamp(bufnull, len) ==
    /\ pc = "idle" /\ strmp # "FREED"
    /\ call' = [op |-> "read", len |-> len, cur0 |-> s.cur, end0 |-> s.end,
                siz0 |-> s.siz, a0 |-> Flat]
    /\ out' = <<>>
    /\ UNCHANGED <<file, exists, fds, maps, strmp, s>>
    /\ IF strmp = "NULL" \/ bufnull \/ len < 0 THEN
            Fail("read", "EINVAL") /\ loc' = loc0 /\ rt' = rt0
       ELSE IF PROT_READ \notin s.mod THEN
            Fail("read", "EPERM") /\ loc' = loc0 /\ rt' = rt0
       ELSE /\ loc' = [buf |-> <<>>, len |-> 0, brk |-> s.cur + len]
            /\ rt' = IF rt.st = 2 THEN [rt EXCEPT !.st = 3] ELSE rt0
            /\ pc' = "r_loop"
            /\ ret' = 0 /\ errno' = "0"

(* parameter and permission checks; clamp to end; read break; counter reset *)
stream_read(bufnull, len) ==
    /\ pc = "idle" /\ strmp # "FREED"
    /\ call' = [op |-> "read", len |-> len, cur0 |-> s.cur, end0 |-> s.end,
                siz0 |-> s.siz, a0 |-> Flat]
    /\ out' = <<>>
    /\ UNCHANGED <<file, exists, fds, maps, strmp, s>>
    /\ IF strmp = "NULL" \/ bufnull \/ len < 0 THEN
            Fail("read", "EINVAL") /\ loc' = loc0 /\ rt' = rt0
       ELSE IF PROT_READ \notin s.mod THEN
            Fail("read", "EPERM") /\ loc' = loc0 /\ rt' = rt0
       ELSE /\ LET n == IF s.cur > s.end - len THEN s.end - s.cur ELSE len IN
                loc' = [buf |-> <<>>, len |-> 0, brk |-> s.cur + n]
            /\ rt' = IF rt.st = 2 THEN [rt EXCEPT !.st = 3] ELSE rt0
            /\ pc' = "r_loop"
            /\ UNCHANGED <<ret, errno>>

(* while (s->cur < brk): loop test and page-fault test; return len *)
ReadLoop ==
    /\ pc = "r_loop"
    /\ UNCHANGED <<file, exists, fds, maps, strmp, s, call, out, rt>>
    /\ IF s.cur < loc.brk THEN
            /\ pc' = IF PageFault(s) THEN "r_unmap" ELSE "r_copy"
            /\ UNCHANGED <<ret, errno, loc>>
       ELSE /\ Return(loc.len)
            /\ loc' = loc0

(* variant: the read window is not cut at the file size *)
ReadUnmapNoCut ==
    /\ pc = "r_unmap"
    /\ maps' = IF s.buf # MAP_FAILED THEN Unmap(s, maps) ELSE maps
    /\ LET off == (s.cur \div s.blk) * s.blk IN
       s' = [s EXCEPT !.buf = MAP_FAILED, !.off = off, !.len = s.blk,
                      !.brk = off + s.blk]
    /\ pc' = "r_map"
    /\ UNCHANGED <<file, exists, fds, strmp, loc, call, ret, errno, out, rt>>

(* release the held window, compute the new window, cut it at the file size *)
ReadUnmap ==
    /\ pc = "r_unmap"
    /\ maps' = IF s.buf # MAP_FAILED THEN Unmap(s, maps) ELSE maps
    /\ LET off == (s.cur \div s.blk) * s.blk
           st == [s EXCEPT !.buf = MAP_FAILED, !.off = off, !.len = s.blk]
           Cut(brk) == IF brk > s.siz
                       THEN [st EXCEPT !.len = s.siz - off, !.brk = s.siz]
                       ELSE [st EXCEPT !.brk = brk]
       IN IF off + s.blk <= LONG_MAX THEN
               s' = Cut(off + s.blk) /\ pc' = "r_map"
          ELSE \E trap \in BOOLEAN :
               IF trap THEN s' = st /\ pc' = "SIGABRT"
               ELSE s' = Cut(Wrap(off + s.blk)) /\ pc' = "r_map"
    /\ UNCHANGED <<file, exists, fds, strmp, loc, call, ret, errno, out, rt>>

(* s->buf = mmap(NULL, s->len, s->mod, MAP_SHARED, s->des, s->off);        *)
(* mmap rejects a length of zero and a range beyond the largest offset     *)
ReadMap(ok) ==
    /\ pc = "r_map"
    /\ UNCHANGED <<file, exists, fds, strmp, call, out, rt>>
    /\ IF ok /\ s.len > 0 /\ MapInRange(s.off, s.len) THEN
            /\ LET a == NewAddr(maps) IN
                /\ maps' = maps \cup {[addr |-> a, off |-> s.off,
                                       len |-> s.len, prot |-> s.mod]}
                /\ s' = [s EXCEPT !.buf = a]
            /\ pc' = "r_copy"
            /\ UNCHANGED <<ret, errno, loc>>
       ELSE /\ Fail("read", "EOS")
            /\ loc' = loc0
            /\ s' = [s EXCEPT !.buf = MAP_FAILED]
            /\ maps' = maps

(* read length, byte copy out of the window, cursor and counter update *)
ReadCopy ==
    /\ pc = "r_copy"
    /\ UNCHANGED <<file, exists, fds, maps, strmp, call, ret, errno, rt>>
    /\ LET rdl == Min(Wrap(s.brk - s.cur), loc.brk - s.cur) IN
       IF \A k \in 0..(rdl - 1) : Addressable(s.cur + k) THEN
            /\ out' = out \o [k \in 1..rdl |-> file[s.cur + k]]
            /\ s' = [s EXCEPT !.cur = s.cur + rdl]
            /\ loc' = [loc EXCEPT !.len = loc.len + rdl]
            /\ pc' = "r_loop"
       ELSE /\ pc' = "SIGSEGV"
            /\ UNCHANGED <<s, loc, out>>

(* ---- stream_seek, stream_tell, stream_end, stream_sync ---- *)

(* variant: the range check refuses the position end itself *)
stream_seek_OffByOne(pos) ==
    /\ pc = "idle" /\ strmp # "FREED"
    /\ call' = [op |-> "seek", len |-> pos, cur0 |-> s.cur, end0 |-> s.end,
                siz0 |-> s.siz, a0 |-> Flat]
    /\ out' = <<>> /\ loc' = loc0
    /\ UNCHANGED <<file, exists, fds, maps, strmp>>
    /\ IF strmp = "NULL" THEN
            Fail("seek", "EINVAL") /\ s' = s /\ rt' = rt0
       ELSE IF s.cur # pos THEN
            LET p == IF pos < 0 THEN pos + s.end ELSE pos IN
            IF p < 0 \/ p >= s.end THEN
                Fail("seek", "ERANGE") /\ s' = s /\ rt' = rt0
            ELSE /\ s' = [s EXCEPT !.cur = p]
                 /\ Return(p)
                 /\ rt' = IF rt.st = 1 THEN [rt EXCEPT !.st = 2] ELSE rt0
       ELSE /\ s' = s
            /\ Return(pos)
            /\ rt' = IF rt.st = 1 THEN [rt EXCEPT !.st = 2] ELSE rt0

(* if (s->cur != pos) { resolve, range check, move the cursor } return pos *)
stream_seek(pos) ==
    /\ pc = "idle" /\ strmp # "FREED"
    /\ call' = [op |-> "seek", len |-> pos, cur0 |-> s.cur, end0 |-> s.end,
                siz0 |-> s.siz, a0 |-> Flat]
    /\ out' = <<>> /\ loc' = loc0
    /\ UNCHANGED <<file, exists, fds, maps, strmp>>
    /\ IF strmp = "NULL" THEN
            Fail("seek", "EINVAL") /\ s' = s /\ rt' = rt0
       ELSE IF s.cur # pos THEN
            LET p == IF pos < 0 THEN pos + s.end ELSE pos IN
            IF p < 0 \/ p > s.end THEN
                Fail("seek", "ERANGE") /\ s' = s /\ rt' = rt0
            ELSE /\ s' = [s EXCEPT !.cur = p]
                 /\ Return(p)
                 /\ rt' = IF rt.st = 1 THEN [rt EXCEPT !.st = 2] ELSE rt0
       ELSE /\ s' = s
            /\ Return(pos)
            /\ rt' = IF rt.st = 1 THEN [rt EXCEPT !.st = 2] ELSE rt0

stream_tell ==
    /\ pc = "idle" /\ strmp # "FREED"
    /\ call' = [op |-> "tell", len |-> 0, cur0 |-> s.cur, end0 |-> s.end,
                siz0 |-> s.siz, a0 |-> Flat]
    /\ out' = <<>> /\ loc' = loc0 /\ rt' = rt0
    /\ UNCHANGED <<file, exists, fds, maps, strmp, s>>
    /\ IF strmp = "NULL" THEN Fail("tell", "EINVAL") ELSE Return(s.cur)

stream_end ==
    /\ pc = "idle" /\ strmp # "FREED"
    /\ call' = [op |-> "end", len |-> 0, cur0 |-> s.cur, end0 |-> s.end,
                siz0 |-> s.siz, a0 |-> Flat]
    /\ out' = <<>> /\ loc' = loc0 /\ rt' = rt0
    /\ UNCHANGED <<file, exists, fds, maps, strmp, s>>
    /\ IF strmp = "NULL" THEN Fail("end", "EINVAL") ELSE Return(s.end)

(* variant: a successful sync gives the window up *)
stream_sync_DropWindow(ok) ==
    /\ pc = "idle" /\ strmp # "FREED"
    /\ call' = [op |-> "sync", len |-> 0, cur0 |-> s.cur, end0 |-> s.end,
                siz0 |-> s.siz, a0 |-> Flat]
    /\ out' = <<>> /\ loc' = loc0 /\ rt' = rt0
    /\ UNCHANGED <<file, exists, fds, strmp>>
    /\ IF strmp = "NULL" THEN Fail("sync", "EINVAL") /\ UNCHANGED <<s, maps>>
       ELSE IF s.buf # MAP_FAILED /\ ~ok THEN
            Fail("sync", "EOS") /\ UNCHANGED <<s, maps>>
       ELSE /\ Return(0)
            /\ maps' = Unmap(s, maps)
            /\ s' = [s EXCEPT !.buf = MAP_FAILED]

(* msync(s->buf, s->len, MS_SYNC) when a window is held; the mapping is    *)
(* shared, so the file already shows every byte written through it         *)
stream_sync(ok) ==
    /\ pc = "idle" /\ strmp # "FREED"
    /\ call' = [op |-> "sync", len |-> 0, cur0 |-> s.cur, end0 |-> s.end,
                siz0 |-> s.siz, a0 |-> Flat]
    /\ out' = <<>> /\ loc' = loc0 /\ rt' = rt0
    /\ UNCHANGED <<file, exists, fds, maps, strmp, s>>
    /\ IF strmp = "NULL" THEN Fail("sync", "EINVAL")
       ELSE IF s.buf # MAP_FAILED /\ ~ok THEN Fail("sync", "EOS")
       ELSE Return(0)

(* ---- the caller ---- *)

(* The caller inspects the result of the call that returned and goes on.   *)
(* After a successful write it may decide to read the same span back       *)
(* (rt.st = 1: seek to rt.p next, rt.st = 2: read Len(rt.d) bytes next).   *)
Continue ==
    /\ pc = "ret"
    /\ pc' = "idle"
    /\ call' = call0 /\ ret' = 0 /\ errno' = "0" /\ out' = <<>>
    /\ \/ rt' = rt0
       \/ rt.st \in {1, 2} /\ PROT_READ \in s.mod /\ rt' = rt
    /\ UNCHANGED <<file, exists, fds, maps, strmp, s, loc>>

SeekPos == -(MaxEnd + 1)..(MaxEnd + 1)

(* requests: a NULL buffer, a negative length, and every length up to      *)
(* MaxLen; the bytes written are Data(len)                                 *)
WriteArgs ==
    {[bufnull |-> TRUE, len |-> 0], [bufnull |-> FALSE, len |-> -1]}
    \cup {[bufnull |-> FALSE, len |-> n] : n \in 0..MaxLen}

Data(len) == Pattern(1, Max(len, 0))

ReadArgs ==
    {[bufnull |-> TRUE, len |-> 0], [bufnull |-> FALSE, len |-> -1]}
    \cup {[bufnull |-> FALSE, len |-> n] : n \in 0..MaxLen}

Write ==
    \E a \in WriteArgs :
        /\ rt.st = 0
        /\ strmp = "S" => s.cur + a.len <= MaxEnd
        /\ stream_write(a.bufnull, a.len, Data(a.len))

Read ==
    \E a \in ReadArgs :
        /\ rt.st = 0 \/ (rt.st = 2 /\ ~a.bufnull /\ a.len = Len(rt.d))
        /\ stream_read(a.bufnull, a.len)

Seek ==
    \E pos \in SeekPos :
        /\ rt.st = 0 \/ (rt.st = 1 /\ pos = rt.p)
        /\ stream_seek(pos)

Open ==
    \E pathnull \in BOOLEAN, mode \in Modes, pagesize \in {-1, PAGE},
       blksize \in BlkSizes, fault \in {"none", "open", "fstat", "malloc"} :
        stream_open(pathnull, mode, pagesize, blksize, fault)

Close == rt.st = 0 /\ \E trunc_ok \in BOOLEAN : stream_close(trunc_ok)
Tell == rt.st = 0 /\ stream_tell
End == rt.st = 0 /\ stream_end
Sync == rt.st = 0 /\ \E ok \in BOOLEAN : stream_sync(ok)
Grow == \E ok \in BOOLEAN : WriteGrow(ok)
WMap == \E ok \in BOOLEAN : WriteMap(ok)
RMap == \E ok \in BOOLEAN : ReadMap(ok)

Next ==
    \/ Open \/ Close \/ Continue
    \/ Write \/ WriteLoop \/ WriteUnmap \/ Grow \/ WMap \/ WriteCopy \/ WriteEnd
    \/ Read \/ ReadLoop \/ ReadUnmap \/ RMap \/ ReadCopy
    \/ Seek \/ Tell \/ End \/ Sync

Spec == Init /\ [][Next]_vars

(* ---- the stream as one array of bytes with a cursor ---- *)

(* write d at cursor c of the array a: the array, the cursor, the result *)
RefWrite(a, c, d) ==
    [a |-> [i \in 1..Max(Len(a), c + Len(d)) |->
                IF c < i /\ i <= c + Len(d) THEN d[i - c] ELSE a[i]],
     c |-> c + Len(d), r |-> Len(d), o |-> <<>>]

(* read at most n bytes at cursor c of the array a *)
RefRead(a, c, n) ==
    LET k == Min(n, Len(a) - c) IN
    [a |-> a, c |-> c + k, r |-> k, o |-> SubSeq(a, c + 1, c + k)]

(* move the cursor c of the array a to pos, counted from the end when      *)
(* negative; r = -1 when the position lies outside the array               *)
RefSeek(a, c, pos) ==
    LET p == IF pos < 0 THEN pos + Len(a) ELSE pos IN
    IF p < 0 \/ p > Len(a) THEN [a |-> a, c |-> c, r |-> -1, o |-> <<>>]
    ELSE [a |-> a, c |-> p, r |-> p, o |-> <<>>]

(* a call that was entered keeps executing: the steps inside stream_write  *)
(* and stream_read are taken as long as one is enabled                     *)
CallStep ==
    \/ WriteLoop \/ WriteUnmap \/ Grow \/ WMap \/ WriteCopy \/ WriteEnd
    \/ ReadLoop \/ ReadUnmap \/ RMap \/ ReadCopy

FairSpec == Init /\ [][Next]_vars /\ WF_vars(CallStep)

(* ---- the same program at the upper end of the long range ---- *)

(* pre-existing files whose size lies at or just below LONG_MAX *)
PreFilesMax == {Pattern(2, n) : n \in {LONG_MAX - MaxLen, LONG_MAX}}

InitMax ==
    /\ file \in PreFilesMax
    /\ exists = TRUE
    /\ fds = {}
    /\ maps = {}
    /\ strmp = "NULL"
    /\ s = strm0
    /\ pc = "idle"
    /\ loc = loc0
    /\ call = call0
    /\ ret = 0
    /\ errno = "0"
    /\ out = <<>>
    /\ rt = rt0

(* the caller works in the last blocks below LONG_MAX: it seeks there,     *)
(* and reads and writes only from there                                    *)
SeekPosMax == (-MaxLen..-1) \cup ((LONG_MAX - MaxLen)..LONG_MAX)

NearMax == strmp = "S" => s.cur >= LONG_MAX - MaxLen - 1

WriteMax ==
    \E a \in WriteArgs :
        NearMax /\ stream_write(a.bufnull, a.len, Data(a.len))

ReadMax ==
    \E a \in ReadArgs :
        NearMax /\ stream_read(a.bufnull, a.len)

SeekMax == \E pos \in SeekPosMax : stream_seek(pos)

NextMax ==
    \/ Open \/ Close \/ Continue
    \/ WriteMax \/ WriteLoop \/ WriteUnmap \/ Grow \/ WMap \/ WriteCopy
    \/ WriteEnd
    \/ ReadMax \/ ReadLoop \/ ReadUnmap \/ RMap \/ ReadCopy
    \/ SeekMax \/ Tell \/ End \/ Sync

SpecMax == InitMax /\ [][NextMax]_vars

(* ======================================================================= *)
(* Properties                                                              *)
(* ======================================================================= *)

Returned(op) == pc = "ret" /\ call.op = op
ReadWrite == strmp = "S" /\ s.mod = {PROT_READ, PROT_WRITE}

(* no copy ever leaves the held window or the file *)
NoFault == pc # "SIGSEGV"

(* C1: on a read/write stream, a successful write of n bytes at cursor p,  *)
(* then seek(p), then a read of n bytes returns n and delivers exactly the *)
(* bytes written; the read can only fail with the error of its own mmap.   *)
RoundTrip ==
    (pc = "ret" /\ rt.st = 3) =>
        \/ ret = -1 /\ errno = "EOS"
        \/ ret = Len(rt.d) /\ out = rt.d

(* a round trip of 4 bytes at cursor 1 with block size 2: three windows *)
RoundTripWitness ==
    /\ pc = "ret" /\ rt.st = 3 /\ ReadWrite
    /\ rt.p = 1 /\ Len(rt.d) = 4 /\ s.blk = 2
    /\ ret = 4 /\ out = rt.d

WriteNeverShort ==
    (Returned("write") /\ ret >= 0) =>
        /\ ret = call.len
        /\ s.cur = call.cur0 + call.len
        /\ s.end = Max(call.end0, call.cur0 + call.len)

(* a write inside the stream (end unchanged) or a 4-byte write at cursor 1 *)
(* over three windows of size 2 that grew the file                         *)
WriteNeverShortWitness ==
    /\ Returned("write") /\ ret = 4 /\ call.cur0 = 1 /\ s.blk = 2
    /\ call.end0 < 5 /\ s.end = 5 /\ s.siz > call.siz0

(* C4: a stream_read that does not fail returns min(len, end - c),         *)
(* advances the cursor by that count and delivers the stream bytes         *)
(* [c, c + count); a short count is a success; a read at c = end returns 0 *)
(* and never reaches the remap steps; a valid read on a readable stream    *)
(* fails only with the error of mmap.                                      *)
ReadCount ==
    /\ (Returned("read") /\ ret >= 0) =>
            /\ ret = Min(call.len, call.end0 - call.cur0)
            /\ s.cur = call.cur0 + ret
            /\ out = SubSeq(file, call.cur0 + 1, call.cur0 + ret)
    /\ (Returned("read") /\ ret < 0) =>
            /\ ret = -1
            /\ errno \in {"EINVAL", "EPERM", "EOS"}
            /\ errno = "EOS" => call.cur0 < call.end0 /\ call.len > 0
    /\ (pc \in {"r_unmap", "r_map", "r_copy"}) =>
            call.cur0 < call.end0 /\ call.len > 0

(* a short read: 4 bytes asked, 1 <= end - c < 4 delivered *)
ReadCountWitness ==
    /\ Returned("read") /\ call.len = 4
    /\ ret = call.end0 - call.cur0 /\ ret >= 1 /\ ret < 4
    /\ s.siz > s.end

(* C5: stream_seek(p) succeeds iff r = (p < 0 ? p + end : p) is within     *)
(* 0..end; it then returns r and leaves the cursor at r, which is what     *)
(* stream_tell returns; otherwise it fails with ERANGE and the cursor      *)
(* stays.                                                                  *)
SeekBounds ==
    /\ (Returned("seek") /\ strmp = "S") =>
            LET r == IF call.len < 0 THEN call.len + call.end0 ELSE call.len IN
            IF 0 <= r /\ r <= call.end0
            THEN ret = r /\ s.cur = r /\ errno = "0"
            ELSE ret = -1 /\ errno = "ERANGE" /\ s.cur = call.cur0
    /\ (Returned("tell") /\ strmp = "S") => ret = s.cur /\ s.cur = call.cur0

(* seek(-1) on a stream whose end is 5 resolves to 4 *)
SeekBoundsWitness ==
    /\ Returned("seek") /\ strmp = "S"
    /\ call.len = -1 /\ call.end0 = 5 /\ ret = 4 /\ s.cur = 4 /\ call.cur0 # 4

(* C6: while the stream is open the logical end never decreases; close     *)
(* changes the file only when the tracked size exceeds end, then cuts it   *)
(* to exactly end and keeps every byte below end.                          *)
MonotonicEnd ==
    [][ /\ (strmp = "S" /\ strmp' = "S") => s'.end >= s.end
        /\ (strmp = "S" /\ strmp' = "FREED") =>
              /\ file' # file => (s.end < s.siz /\ Len(file') = s.end)
              /\ Len(file') >= Min(Len(file), s.end)
              /\ \A i \in 1..Min(Len(file), s.end) : file'[i] = file[i]
      ]_vars

(* a write in the middle of the stream, below end, that left end alone *)
MonotonicEndWitness ==
    /\ Returned("write") /\ ret > 0
    /\ call.cur0 + call.len < call.end0 /\ s.end = call.end0

(* C7: stream_write on a read-only stream and stream_read on a write-only  *)
(* stream fail with EPERM and change nothing: cursor, end, tracked size,   *)
(* window, descriptor, mappings, file size and file contents; a read-only  *)
(* stream never changes the file while open.                               *)
CapabilityEnforced ==
    [][ /\ \A a \in WriteArgs :
              (stream_write(a.bufnull, a.len, Data(a.len))
               /\ strmp = "S" /\ PROT_WRITE \notin s.mod
               /\ ~a.bufnull /\ a.len >= 0)
              => (ret' = -1 /\ errno' = "EPERM" /\ pc' = "ret"
                  /\ UNCHANGED <<s, file, maps, fds, strmp>>)
        /\ \A a \in ReadArgs :
              (stream_read(a.bufnull, a.len)
               /\ strmp = "S" /\ PROT_READ \notin s.mod
               /\ ~a.bufnull /\ a.len >= 0)
              => (ret' = -1 /\ errno' = "EPERM" /\ pc' = "ret"
                  /\ UNCHANGED <<s, file, maps, fds, strmp>>)
        /\ (strmp = "S" /\ s.mod = {PROT_READ}) => file' = file
      ]_vars

(* a refused write on a read-only stream over a non-empty file *)
CapabilityWitness ==
    /\ Returned("write") /\ strmp = "S" /\ s.mod = {PROT_READ}
    /\ errno = "EPERM" /\ ret = -1 /\ call.len > 0 /\ s.end > 0

(* C8 as claimed: whenever stream_write or stream_read returns an error,   *)
(* cursor and end are what they were before the call.                      *)
FailureLeavesCursorAndEnd ==
    ((Returned("write") \/ Returned("read")) /\ ret = -1) =>
        (s.cur = call.cur0 /\ s.end = call.end0)

(* C9: when growing the file or mapping the new window fails, the call     *)
(* returns the OS error and the stream holds no window and no mapping;     *)
(* bytes are only ever copied through a live mapping that is the window    *)
(* described by off and len, so a later call remaps instead of using the   *)
(* bounds left by the failed remap.                                        *)
FailedRemapLeavesNoWindow ==
    /\ ((Returned("write") \/ Returned("read")) /\ errno = "EOS") =>
            (ret = -1 /\ s.buf = MAP_FAILED /\ maps = {})
    /\ (pc \in {"w_copy", "r_copy"}) =>
            /\ s.buf # MAP_FAILED
            /\ \E m \in maps : m.addr = s.buf /\ m.off = s.off /\ m.len = s.len
    /\ NoFault

(* a later call remaps although the bounds left by the failed remap cover  *)
(* the cursor                                                              *)
RetryWitness ==
    /\ pc \in {"w_unmap", "r_unmap"}
    /\ s.buf = MAP_FAILED /\ s.off <= s.cur /\ s.cur < s.brk

(* C10: the stream owns at most one live mapping in every state, also      *)
(* inside a remap; the held window is that mapping; none is left after     *)
(* stream_close.                                                           *)
AtMostOneMapping ==
    /\ Cardinality(maps) <= 1
    /\ s.buf # MAP_FAILED => \E m \in maps : m.addr = s.buf
    /\ s.buf = MAP_FAILED => maps = {}
    /\ strmp # "S" => maps = {}

(* inside a remap: the old window released, the new one not yet mapped *)
RemapWitness ==
    /\ pc \in {"w_map", "r_map"} /\ maps = {} /\ s.off > 0 /\ s.buf = MAP_FAILED
    /\ call.cur0 < s.off

(* C11: stream_open leaks no descriptor: after a failed open, also one     *)
(* that failed after the file was opened (fstat, size check, allocation),  *)
(* no descriptor and no control block is held; after a successful open     *)
(* exactly one descriptor is held, cursor = 0, end = tracked size = file   *)
(* size, and no window is held.  A descriptor is held exactly while the    *)
(* stream is open.                                                         *)
OpenNoLeak ==
    /\ fds = (IF strmp = "S" THEN {FD} ELSE {})
    /\ (Returned("open") /\ ret = -1) =>
            (strmp = "NULL" /\ fds = {} /\ s = strm0)
    /\ (Returned("open") /\ ret # -1) =>
            /\ strmp = "S" /\ fds = {s.des}
            /\ s.cur = 0 /\ s.end = Len(file) /\ s.siz = Len(file)
            /\ s.buf = MAP_FAILED /\ maps = {}

(* an open that failed in the allocation, after the file was opened and    *)
(* a non-empty file was truncated by "w"                                   *)
OpenNoLeakWitness ==
    /\ Returned("open") /\ ret = -1 /\ errno = "ENOMEM"
    /\ exists /\ fds = {}

(* C12: with offsets bounded by LONG_MAX, a stream_write whose cursor +    *)
(* len exceeds LONG_MAX fails with EFBIG before any effect: the control    *)
(* block (cursor, end, tracked size, window), the file and the mappings    *)
(* are unchanged; a write with cursor + len <= LONG_MAX passes the limit   *)
(* check and enters the writing loop.                                      *)
WriteLimit ==
    [][\A a \in WriteArgs :
          (/\ stream_write(a.bufnull, a.len, Data(a.len))
           /\ strmp = "S" /\ ~a.bufnull /\ a.len >= 0
           /\ PROT_WRITE \in s.mod)
          => IF s.cur + a.len > LONG_MAX
             THEN /\ ret' = -1 /\ errno' = "EFBIG" /\ pc' = "ret"
                  /\ UNCHANGED <<s, file, maps>>
             ELSE errno' # "EFBIG" /\ pc' = "w_loop"]_vars

(* a write refused with EFBIG although it asked for no more than MaxLen    *)
(* bytes                                                                   *)
WriteLimitWitness ==
    /\ Returned("write") /\ ret = -1 /\ errno = "EFBIG"
    /\ call.cur0 + call.len > LONG_MAX /\ call.cur0 <= LONG_MAX

(* C13: at every operation boundary of an open stream 0 <= cursor <= end   *)
(* <= tracked file size; the cursor is above end only inside a write       *)
(* iteration, between the cursor update and the end update; the clamped    *)
(* length of a read, end - cursor, is never negative.                      *)
CursorOrder ==
    strmp = "S" =>
        /\ 0 <= s.cur /\ s.cur <= s.siz
        /\ 0 <= s.end /\ s.end <= s.siz
        /\ pc \in {"idle", "ret"} => s.cur <= s.end
        /\ s.cur > s.end => pc = "w_end"
        /\ pc \in {"r_loop", "r_unmap", "r_map", "r_copy"} =>
                (call.cur0 <= loc.brk /\ loc.brk <= s.end)

(* inside a write iteration the cursor has passed end *)
CursorOrderWitness == strmp = "S" /\ pc = "w_end" /\ s.cur > s.end

(* C14: whenever a window is held its offset is a multiple of the block    *)
(* size, bound = offset + length, 1 <= length <= block size and bound <=   *)
(* tracked size, and it is the live mapping; the window the write path     *)
(* maps is exactly one block long, the window the read path maps is        *)
(* min(block size, tracked size - offset) long and never empty.            *)
WindowShape ==
    strmp = "S" =>
        /\ s.buf # MAP_FAILED =>
                /\ s.off % s.blk = 0
                /\ s.brk = s.off + s.len
                /\ 1 <= s.len /\ s.len <= s.blk
                /\ s.brk <= s.siz
                /\ \E m \in maps : /\ m.addr = s.buf
                                   /\ m.off = s.off /\ m.len = s.len
        /\ pc = "w_map" =>
                (s.len = s.blk /\ s.brk = s.off + s.blk /\ s.brk <= s.siz)
        /\ pc = "r_map" =>
                (s.len = Min(s.blk, s.siz - s.off) /\ s.len >= 1)

(* a held read-path window that the file size cut short *)
WindowShapeWitness ==
    strmp = "S" /\ s.buf # MAP_FAILED /\ s.len < s.blk /\ pc = "r_copy"

(* C15: every byte read or write copies is addressed inside the held       *)
(* window: at each copy a window is held and is a live mapping, and every  *)
(* position of [cursor, cursor + chunk) lies in [offset, bound) and in     *)
(* the file; no copy faults.                                               *)
CopyInsideWindow ==
    /\ pc # "SIGSEGV"
    /\ pc \in {"w_copy", "r_copy"} =>
        LET chunk == Min(s.brk, loc.brk) - s.cur IN
            /\ s.buf # MAP_FAILED
            /\ chunk >= 1
            /\ \A k \in 0..(chunk - 1) :
                    /\ s.off <= s.cur + k /\ s.cur + k < s.brk
                    /\ Addressable(s.cur + k)

(* a write copying through a window that a read left: shorter than a block *)
CopyInsideWindowWitness ==
    pc = "w_copy" /\ s.len < s.blk /\ s.buf # MAP_FAILED

(* C16: every stream_write and stream_read call terminates: a copy step    *)
(* transfers at least one byte and advances the cursor and the transfer    *)
(* count by that amount, towards the break of the call, and a running      *)
(* call eventually returns.                                                *)
CallTerminates ==
    /\ [][(WriteCopy \/ ReadCopy) =>
            /\ s'.cur >= s.cur + 1 /\ s'.cur <= loc.brk
            /\ loc'.len - loc.len = s'.cur - s.cur]_vars
    /\ (pc \in {"w_loop", "w_unmap", "w_grow", "w_map", "w_copy", "w_end",
                "r_loop", "r_unmap", "r_map", "r_copy"}) ~> (pc = "ret")

(* a call that returned after more than one loop iteration *)
CallTerminatesWitness ==
    /\ (Returned("write") \/ Returned("read"))
    /\ ret >= 0 /\ s.off > call.cur0

(* C17: while the stream is open the tracked file size equals the on-disk  *)
(* size in every state, also after a failed growth or a failed mapping;    *)
(* the size changes only in the growth step of the write path, only when   *)
(* the new bound exceeds the tracked size, and then both become exactly    *)
(* offset + block size; the file never shrinks before close.               *)
TrackedSizeIsFileSize ==
    /\ [](strmp = "S" => s.siz = Len(file))
    /\ [][(strmp = "S" /\ strmp' = "S"
                /\ (Len(file') # Len(file) \/ s'.siz # s.siz)) =>
            /\ pc = "w_grow" /\ s.brk > s.siz
            /\ Len(file') = s.off + s.blk /\ s'.siz = s.off + s.blk
            /\ Len(file') > Len(file)]_vars

(* a write that failed in the growth: the bound computed lies beyond the   *)
(* tracked size, which still is the file size                              *)
TrackedSizeWitness ==
    /\ Returned("write") /\ ret = -1 /\ errno = "EOS"
    /\ s.brk > s.siz /\ s.siz = Len(file)

(* C18: stream_seek changes at most the cursor, and nothing when it fails; *)
(* stream_sync changes no field of the stream whether it succeeds or       *)
(* fails, and succeeds exactly when the stream is open and either no       *)
(* window is held or msync succeeds; neither changes the file, its size,   *)
(* the mappings or the descriptors.  A sync therefore leaves the state in  *)
(* which a second sync behaves the same.                                   *)
SeekSyncFrame ==
    [][/\ (\E pos \in SeekPos : stream_seek(pos)) =>
            /\ UNCHANGED <<file, maps, fds, strmp>>
            /\ s' = [s EXCEPT !.cur = s'.cur]
            /\ ret' = -1 => s' = s
       /\ (\E ok \in BOOLEAN : stream_sync(ok)) =>
            /\ UNCHANGED <<file, maps, fds, strmp, s>>
            /\ (strmp = "S" /\ s.buf = MAP_FAILED) => ret' = 0
       /\ stream_sync(TRUE) => (ret' = 0 <=> strmp = "S")]_vars

(* a sync that succeeded with a window held over written bytes *)
SeekSyncFrameWitness ==
    /\ Returned("sync") /\ ret = 0
    /\ s.buf # MAP_FAILED /\ s.end > 0 /\ PROT_WRITE \in s.mod

(* C19: the windowed stream refines one array of bytes with a cursor.  On  *)
(* a stream opened "w+" or "r+", every successful write, read and seek     *)
(* returns what the array operation returns and leaves the cursor, end     *)
(* and the bytes below end as the array operation leaves them, starting    *)
(* from the bytes below end at the entry of the call: a write changes      *)
(* exactly the bytes [c, c + len), earlier bytes survive remaps and        *)
(* growth, and a read delivers only bytes below end.                       *)
RefinesFlatArray ==
    ReadWrite =>
        LET r == IF call.op = "write"
                 THEN RefWrite(call.a0, call.cur0, Data(call.len))
                 ELSE IF call.op = "read"
                 THEN RefRead(call.a0, call.cur0, call.len)
                 ELSE RefSeek(call.a0, call.cur0, call.len)
        IN /\ ((Returned("write") \/ Returned("read") \/ Returned("seek"))
                    /\ ret >= 0) =>
                /\ ret = r.r /\ s.cur = r.c
                /\ s.end = Len(r.a) /\ Flat = r.a
                /\ out = r.o
           /\ (Returned("seek") /\ ret = -1) => r.r = -1

(* a write over several blocks that grew the file and kept earlier bytes   *)
RefinesWitness ==
    /\ ReadWrite /\ Returned("write") /\ ret = call.len
    /\ call.cur0 > 0 /\ s.siz > call.siz0 /\ s.off > call.cur0

(* C20: no arithmetic of an accepted operation leaves the range of a long: *)
(* whenever a write that passed the limit check, or a read, computes a     *)
(* window, the bound offset + block size is at most LONG_MAX, so the       *)
(* addition neither traps nor wraps, and the bound, the size handed to     *)
(* ftruncate and the tracked size stay within 0..LONG_MAX.                 *)
WindowBoundInRange ==
    /\ pc \in {"w_unmap", "r_unmap"} =>
            (s.cur \div s.blk) * s.blk + s.blk <= LONG_MAX
    /\ pc # "SIGABRT"
    /\ strmp = "S" =>
            /\ 0 <= s.brk /\ s.brk <= LONG_MAX
            /\ 0 <= s.siz /\ s.siz <= LONG_MAX

====
